---- MODULE Spec2Model ----
(***************************************************************************)
(* Model of game-components.js: the DOM-backed component hierarchy         *)
(* GameComponent <- TextComponent <- {Scoreboard, Timer}, the host         *)
(* document (getElementById, innerText) and the host timer facility        *)
(* (setInterval, clearInterval).  One instance of each constructor is      *)
(* modelled.  The closure variables of Scoreboard and Timer are the        *)
(* module's variables of the same name.                                    *)
(***************************************************************************)
EXTENDS Integers, Sequences, FiniteSets, TLC

(* ---------------------------- bounds ---------------------------------- *)

\* Longest recorded history of Timer calls (startCountdown, reset, tick).
MaxOps == 7

\* Largest initialTimeValue passed to new Timer(...).
MaxTime == 2

\* Longest recorded history of Scoreboard calls (update, reset).
MaxScoreOps == 3

\* Largest absolute value of a score delta / initial score.
MaxDelta == 2

(* ------------------------- host document ------------------------------ *)

\* The ids of the elements the host document holds.
Elements == {"score", "timer"}

\* The identifiers handed to the constructors; "nope" names no element.
Ids == Elements \cup {"nope"}

\* The value document.getElementById returns for an unknown id.
NullElement == "<null>"

\* The values a TextComponent's owner writes with setText.
Texts == {"hello"}

\* The constructor functions of the file.
Kinds == {"GameComponent", "TextComponent", "Scoreboard", "Timer"}

\* let intervalId; (declared, not assigned): undefined, which is falsy.
\* The ids setInterval returns are positive integers, which are truthy.
Undefined == 0

\* The values of the public field countdownTimerEndCallback: null, a
\* function that leaves the timer alone, and a function that calls
\* reset() then startCountdown() on the timer.
NoCallback == "null"
Callbacks == {"null", "observe", "restart"}

VARIABLES
  text,        \* innerText of each element of the document
  obj,         \* per constructor: outcome of `new`, bound element, own methods
  score,       \* Scoreboard: let score
  initialValue,\* Scoreboard: parameter initialValue
  sbHist,      \* history: Scoreboard calls since construction
  initialTime, \* Timer: const initialTime
  timeRemaining, \* Timer: let timeRemaining
  intervalId,  \* Timer: let intervalId
  countdownTimerEndCallback, \* Timer: this.countdownTimerEndCallback
  intervals,   \* host timer facility: ids of the active intervals
  nextIntervalId, \* host timer facility: the id the next setInterval returns
  hist,        \* history: Timer calls since construction
  cbCalls,     \* history: number of invocations of the completion callback
  tickClears,  \* history: number of clearInterval calls made by tick handlers
  cbView,      \* history: what the callback saw when it was last invoked
  cbCallee,    \* history: the function the last callback invocation ran
  staleClears, \* history: clearInterval calls on an id that was not active
  overlapped,  \* history: startCountdown() was called with an interval active
  startedSpent \* history: startCountdown() was called with no time remaining

vars == <<text, obj, score, initialValue, sbHist, initialTime, timeRemaining,
          intervalId, countdownTimerEndCallback, intervals, nextIntervalId,
          hist, cbCalls, tickClears, cbView, cbCallee, staleClears,
          overlapped, startedSpent>>

scoreVars == <<score, initialValue, sbHist>>
timerVars == <<initialTime, timeRemaining, intervalId,
               countdownTimerEndCallback, intervals, nextIntervalId,
               hist, cbCalls, tickClears, cbView, cbCallee, staleClears,
               overlapped, startedSpent>>

(* ------------------------- GameComponent ------------------------------ *)

\* document.getElementById(id)
getElementById(id) == IF id \in Elements THEN id ELSE NullElement

NoError == [name |-> "", message |-> ""]

\* const err = new Error(`No element exists with id="${id}".`);
\* err.name = "HtmlElementNotFound";
HtmlElementNotFound(id) ==
  [name |-> "HtmlElementNotFound",
   message |-> "No element exists with id=\"" \o id \o "\"."]

\* An object slot before `new` has run.
NoObject == [state |-> "none", args |-> <<>>, element |-> NullElement,
             methods |-> {}, error |-> NoError]

\* Mutation: the null test never succeeds.
IsNull_Never(element) == FALSE

\* if (element === null)
IsNull(element) == element = NullElement

\* The outcome of GameComponent.call(this, idValue) inside `new K(args)`:
\* either the throw, which leaves `this` without any own method, or the
\* object with getElement.
GameComponent(args) ==
  LET idValue == args[1]
      element == getElementById(idValue)
  IN  IF IsNull(element)
      THEN [state |-> "threw", args |-> args, element |-> NullElement,
            methods |-> {}, error |-> HtmlElementNotFound(idValue)]
      ELSE [state |-> "ok", args |-> args, element |-> element,
            methods |-> {"getElement"}, error |-> NoError]

\* TextComponent(idValue) only calls GameComponent.
TextComponent(args) == GameComponent(args)

\* this.getElement() of the object built by constructor k.
getElement(k) == obj[k].element

\* TextComponent.prototype.setText, on the document text t.
setText(t, k, value) == [t EXCEPT ![getElement(k)] = value]

(* --------------------------- Scoreboard -------------------------------- *)

\* function Scoreboard(idValue, initialValue = 0)
DefaultInitialValue(args) == IF Len(args) < 2 THEN 0 ELSE args[2]

\* Mutation: the display shows the initial value, not the score.
ScoreUpdateDisplay_Initial(t, s) ==
  setText(t, "Scoreboard", "Score: " \o ToString(initialValue))

\* const updateDisplay = () => this.setText(`Score: ${score}`)
ScoreUpdateDisplay(t, s) == setText(t, "Scoreboard", "Score: " \o ToString(s))

(* ------------------------------ Timer ---------------------------------- *)

\* The part of the state a Timer call reads and writes, as one record.
TimerState ==
  [text |-> text, timeRemaining |-> timeRemaining, intervalId |-> intervalId,
   intervals |-> intervals, nextIntervalId |-> nextIntervalId, hist |-> hist,
   cbCalls |-> cbCalls, tickClears |-> tickClears, cbView |-> cbView,
   cbCallee |-> cbCallee, staleClears |-> staleClears,
   overlapped |-> overlapped, startedSpent |-> startedSpent]

\* const updateDisplay = () => this.setText(`Time: ${timeRemaining}`)
TimerUpdateDisplay(w) ==
  [w EXCEPT !.text = setText(w.text, "Timer",
                             "Time: " \o ToString(w.timeRemaining))]

\* clearInterval(id): cancels the interval if it is active, else nothing.
clearInterval(w, id) ==
  [w EXCEPT !.intervals = @ \ {id},
            !.staleClears = IF id \in w.intervals THEN @ ELSE @ + 1]

\* setInterval(handler, 1000): a new active interval with a fresh id.
setInterval(w) ==
  [w EXCEPT !.intervals = @ \cup {w.nextIntervalId},
            !.nextIntervalId = @ + 1]

\* Mutation: reset() cancels the interval and renders, without restoring
\* the remaining time.
reset_KeepsTime(w) ==
  LET w1 == IF w.intervalId # Undefined
            THEN clearInterval(w, w.intervalId) ELSE w
  IN  TimerUpdateDisplay([w1 EXCEPT !.hist = Append(@, "reset")])

\* this.reset
reset(w) ==
  LET w1 == IF w.intervalId # Undefined
            THEN clearInterval(w, w.intervalId) ELSE w
      w2 == [w1 EXCEPT !.timeRemaining = initialTime,
                       !.hist = Append(@, "reset")]
  IN  TimerUpdateDisplay(w2)

\* this.startCountdown: intervalId = setInterval(...)
startCountdown(w) ==
  [setInterval(w) EXCEPT !.intervalId = w.nextIntervalId,
                         !.hist = Append(@, "startCountdown"),
                         !.overlapped = @ \/ w.intervals # {},
                         !.startedSpent = @ \/ w.timeRemaining <= 0]

\* The body of the function in countdownTimerEndCallback.
CallbackBody(w, f) ==
  IF f = "restart" THEN startCountdown(reset(w)) ELSE w

\* this.countdownTimerEndCallback(): the call, and what the callee sees.
InvokeCallback(w, f) ==
  CallbackBody([w EXCEPT !.cbCalls = @ + 1,
                         !.cbCallee = f,
                         !.cbView = [intervals |-> w.intervals,
                                     text |-> w.text[getElement("Timer")],
                                     timeRemaining |-> w.timeRemaining]], f)

\* Mutation: the zero test is a test for a negative value.
ReachedZero_Negative(t) == t < 0

\* Mutation: the zero test also succeeds below zero.
ReachedZero_NonPositive(t) == t <= 0

\* The zero test of the tick handler.
ReachedZero(t) == t = 0

\* Mutation: the callback is invoked before the interval is cancelled.
TickCompletion_CallbackFirst(w) ==
  LET w1 == IF countdownTimerEndCallback # NoCallback
            THEN InvokeCallback(w, countdownTimerEndCallback)
            ELSE w
  IN  [clearInterval(w1, w.intervalId) EXCEPT !.tickClears = @ + 1]

\* Mutation: the interval is cancelled only when a callback is set.
TickCompletion_CancelOnlyWithCallback(w) ==
  IF countdownTimerEndCallback # NoCallback
  THEN InvokeCallback([clearInterval(w, w.intervalId)
                         EXCEPT !.tickClears = @ + 1],
                      countdownTimerEndCallback)
  ELSE w

\* Mutation: the interval held when the callback returns is cancelled.
TickCompletion_ClearAfterCallback(w) ==
  LET w1 == IF countdownTimerEndCallback # NoCallback
            THEN InvokeCallback(w, countdownTimerEndCallback)
            ELSE w
  IN  [clearInterval(w1, w1.intervalId) EXCEPT !.tickClears = @ + 1]

\* Mutation: the completion branch does not cancel the interval.
TickCompletion_NoClear(w) ==
  IF countdownTimerEndCallback # NoCallback
  THEN InvokeCallback(w, countdownTimerEndCallback)
  ELSE w

\* if (timeRemaining === 0) { clearInterval(intervalId); callback }
TickCompletion(w) ==
  LET w1 == [clearInterval(w, w.intervalId) EXCEPT !.tickClears = @ + 1]
  IN  IF countdownTimerEndCallback # NoCallback
      THEN InvokeCallback(w1, countdownTimerEndCallback)
      ELSE w1

\* Mutation: the tick renders before it decrements.
tickHandler_RenderFirst(w) ==
  LET w1 == TimerUpdateDisplay(w)
      w2 == [w1 EXCEPT !.timeRemaining = @ - 1, !.hist = Append(@, "tick")]
  IN  IF ReachedZero(w2.timeRemaining) THEN TickCompletion(w2) ELSE w2

\* Mutation: every tick runs the completion branch.
tickHandler_NoZeroTest(w) ==
  LET w1 == [w EXCEPT !.timeRemaining = @ - 1, !.hist = Append(@, "tick")]
  IN  TickCompletion(TimerUpdateDisplay(w1))

\* The function passed to setInterval: one tick.
tickHandler(w) ==
  LET w1 == [w EXCEPT !.timeRemaining = @ - 1, !.hist = Append(@, "tick")]
      w2 == TimerUpdateDisplay(w1)
  IN  IF ReachedZero(w2.timeRemaining) THEN TickCompletion(w2) ELSE w2

\* Writes a TimerState back to the variables.
TimerAssign(w) ==
  /\ text' = w.text
  /\ timeRemaining' = w.timeRemaining
  /\ intervalId' = w.intervalId
  /\ intervals' = w.intervals
  /\ nextIntervalId' = w.nextIntervalId
  /\ hist' = w.hist
  /\ cbCalls' = w.cbCalls
  /\ tickClears' = w.tickClears
  /\ cbView' = w.cbView
  /\ cbCallee' = w.cbCallee
  /\ staleClears' = w.staleClears
  /\ overlapped' = w.overlapped
  /\ startedSpent' = w.startedSpent

(* ---------------------------- initial state ---------------------------- *)

NoView == [intervals |-> {}, text |-> "", timeRemaining |-> 0]

Init ==
  /\ text = [e \in Elements |-> ""]
  /\ obj = [k \in Kinds |-> NoObject]
  /\ score = 0
  /\ initialValue = 0
  /\ sbHist = <<>>
  /\ initialTime = 0
  /\ timeRemaining = 0
  /\ intervalId = Undefined
  /\ countdownTimerEndCallback = NoCallback
  /\ intervals = {}
  /\ nextIntervalId = 1
  /\ hist = <<>>
  /\ cbCalls = 0
  /\ tickClears = 0
  /\ cbView = NoView
  /\ cbCallee = NoCallback
  /\ staleClears = 0
  /\ overlapped = FALSE
  /\ startedSpent = FALSE

(* ------------------------------ actions -------------------------------- *)

\* new GameComponent(id)
NewGameComponent ==
  \E id \in Ids :
    /\ obj["GameComponent"].state # "ok"
    /\ obj' = [obj EXCEPT !["GameComponent"] = GameComponent(<<id>>)]
    /\ UNCHANGED <<text, scoreVars, timerVars>>

\* new TextComponent(id)
NewTextComponent ==
  \E id \in Ids :
    /\ obj["TextComponent"].state # "ok"
    /\ obj' = [obj EXCEPT !["TextComponent"] = TextComponent(<<id>>)]
    /\ UNCHANGED <<text, scoreVars, timerVars>>

\* textComponent.setText(value)
SetText ==
  \E value \in Texts :
    /\ obj["TextComponent"].state = "ok"
    /\ text' = setText(text, "TextComponent", value)
    /\ UNCHANGED <<obj, scoreVars, timerVars>>

\* new Scoreboard(id) and new Scoreboard(id, initialValue)
NewScoreboard ==
  \E args \in {<<id>> : id \in Ids}
                \cup {<<id, v>> : id \in Ids, v \in -MaxDelta..MaxDelta} :
    LET initial == DefaultInitialValue(args)
        base == TextComponent(args)
    IN  /\ obj["Scoreboard"].state # "ok"
        /\ IF base.state = "threw"
           THEN /\ obj' = [obj EXCEPT !["Scoreboard"] = base]
                /\ UNCHANGED <<text, scoreVars>>
           ELSE /\ obj' = [obj EXCEPT !["Scoreboard"] =
                             [base EXCEPT !.methods = @ \cup {"update", "reset"}]]
                /\ score' = initial
                /\ initialValue' = initial
                /\ sbHist' = <<>>
                /\ text' = [text EXCEPT ![base.element] =
                              "Score: " \o ToString(initial)]
        /\ UNCHANGED timerVars

\* Mutation: update assigns the value instead of adding it.
ScoreUpdate_Overwrite ==
  \E value \in -MaxDelta..MaxDelta :
    /\ obj["Scoreboard"].state = "ok"
    /\ Len(sbHist) < MaxScoreOps
    /\ score' = value
    /\ text' = ScoreUpdateDisplay(text, value)
    /\ sbHist' = Append(sbHist, [op |-> "update", value |-> value])
    /\ UNCHANGED <<obj, initialValue, timerVars>>

\* scoreboard.update(value)
ScoreUpdate ==
  \E value \in -MaxDelta..MaxDelta :
    /\ obj["Scoreboard"].state = "ok"
    /\ Len(sbHist) < MaxScoreOps
    /\ score' = score + value
    /\ text' = ScoreUpdateDisplay(text, score + value)
    /\ sbHist' = Append(sbHist, [op |-> "update", value |-> value])
    /\ UNCHANGED <<obj, initialValue, timerVars>>

\* Mutation: reset goes back to 0, not to the initial value.
ScoreReset_ToZero ==
  /\ obj["Scoreboard"].state = "ok"
  /\ Len(sbHist) < MaxScoreOps
  /\ score' = 0
  /\ text' = ScoreUpdateDisplay(text, 0)
  /\ sbHist' = Append(sbHist, [op |-> "reset", value |-> 0])
  /\ UNCHANGED <<obj, initialValue, timerVars>>

\* scoreboard.reset()
ScoreReset ==
  /\ obj["Scoreboard"].state = "ok"
  /\ Len(sbHist) < MaxScoreOps
  /\ score' = initialValue
  /\ text' = ScoreUpdateDisplay(text, initialValue)
  /\ sbHist' = Append(sbHist, [op |-> "reset", value |-> 0])
  /\ UNCHANGED <<obj, initialValue, timerVars>>

\* new Timer(id, initialTimeValue)
NewTimer ==
  \E id \in Ids, initialTimeValue \in -1..MaxTime :
    LET base == TextComponent(<<id, initialTimeValue>>)
    IN  /\ obj["Timer"].state # "ok"
        /\ IF base.state = "threw"
           THEN /\ obj' = [obj EXCEPT !["Timer"] = base]
                /\ UNCHANGED <<text, timerVars>>
           ELSE /\ obj' = [obj EXCEPT !["Timer"] =
                             [base EXCEPT !.methods =
                                @ \cup {"reset", "startCountdown"}]]
                /\ initialTime' = initialTimeValue
                /\ timeRemaining' = initialTimeValue
                /\ intervalId' = Undefined
                /\ countdownTimerEndCallback' = NoCallback
                /\ text' = [text EXCEPT ![base.element] =
                              "Time: " \o ToString(initialTimeValue)]
                /\ UNCHANGED <<intervals, nextIntervalId, hist, cbCalls,
                               tickClears, cbView, cbCallee, staleClears,
                               overlapped, startedSpent>>
        /\ UNCHANGED scoreVars

\* timer.countdownTimerEndCallback = f
SetCallback ==
  \E f \in Callbacks :
    /\ obj["Timer"].state = "ok"
    /\ countdownTimerEndCallback' = f
    /\ UNCHANGED <<text, obj, scoreVars, initialTime, timeRemaining,
                   intervalId, intervals, nextIntervalId, hist, cbCalls,
                   tickClears, cbView, cbCallee, staleClears, overlapped,
                   startedSpent>>

\* Mutation: reset() also clears the completion callback.
TimerReset_ClearsCallback ==
  /\ obj["Timer"].state = "ok"
  /\ Len(hist) < MaxOps
  /\ TimerAssign(reset(TimerState))
  /\ countdownTimerEndCallback' = NoCallback
  /\ UNCHANGED <<obj, scoreVars, initialTime>>

\* timer.reset()
TimerReset ==
  /\ obj["Timer"].state = "ok"
  /\ Len(hist) < MaxOps
  /\ TimerAssign(reset(TimerState))
  /\ UNCHANGED <<obj, scoreVars, initialTime, countdownTimerEndCallback>>

\* timer.startCountdown()
TimerStart ==
  /\ obj["Timer"].state = "ok"
  /\ Len(hist) < MaxOps
  /\ TimerAssign(startCountdown(TimerState))
  /\ UNCHANGED <<obj, scoreVars, initialTime, countdownTimerEndCallback>>

\* The host fires one of the active intervals: its handler runs to the end.
Tick ==
  \E id \in intervals :
    /\ Len(tickHandler(TimerState).hist) <= MaxOps
    /\ TimerAssign(tickHandler(TimerState))
    /\ UNCHANGED <<obj, scoreVars, initialTime, countdownTimerEndCallback>>

Next ==
  \/ NewGameComponent
  \/ NewTextComponent
  \/ SetText
  \/ NewScoreboard
  \/ ScoreUpdate
  \/ ScoreReset
  \/ NewTimer
  \/ SetCallback
  \/ TimerReset
  \/ TimerStart
  \/ Tick

\* All four objects over one document.  The objects share nothing but the
\* document, so the properties are checked on the three compositions below,
\* each with a second writer of the document; the full product has more
\* than 10^7 states within the bounds.
Spec == Init /\ [][Next]_vars

\* The Timer with a TextComponent that may be bound to the same element.
NextTimer ==
  \/ NewTextComponent
  \/ SetText
  \/ NewTimer
  \/ SetCallback
  \/ TimerReset
  \/ TimerStart
  \/ Tick

SpecTimer == Init /\ [][NextTimer]_vars

\* The Scoreboard with a TextComponent that may be bound to the same element.
NextScore ==
  \/ NewTextComponent
  \/ SetText
  \/ NewScoreboard
  \/ ScoreUpdate
  \/ ScoreReset

SpecScore == Init /\ [][NextScore]_vars

\* The four constructors over one document.
NextNew ==
  \/ NewGameComponent
  \/ NewTextComponent
  \/ SetText
  \/ NewScoreboard
  \/ NewTimer

SpecNew == Init /\ [][NextNew]_vars


(* ------------------------ helpers of the claims ------------------------ *)

\* n ticks in a row.
Ticks(n) == [i \in 1..n |-> "tick"]

\* startCountdown() called once on a fresh Timer, then k ticks.
OneCountdown(k) == <<"startCountdown">> \o Ticks(k)

\* A completed countdown of n ticks, reset(), startCountdown(), then k ticks.
SecondCountdown(n, k) ==
  OneCountdown(n) \o <<"reset", "startCountdown">> \o Ticks(k)

\* "Time: " + n and "Score: " + n as the page shows them.
TimeText(n) == "Time: " \o ToString(n)
ScoreText(n) == "Score: " \o ToString(n)

\* The step is a successful `new K(...)`.
Constructed(k) == obj[k].state # "ok" /\ obj'[k].state = "ok"

\* The step is a Timer call that has run to its end.
TimerCalled == obj["Timer"].state = "ok" /\ hist' # hist

\* The step is timer.reset() called by the owner.
ResetCalled == obj["Timer"].state = "ok" /\ hist' = Append(hist, "reset")

\* The step begins with a tick or a reset() of the Timer.
TickOrResetCalled ==
  /\ obj["Timer"].state = "ok"
  /\ Len(hist') > Len(hist)
  /\ hist'[Len(hist) + 1] \in {"tick", "reset"}

\* What the element bound to the object of constructor k shows after the step.
Shown(k) == text'[obj'[k].element]

\* 1 if a completion callback is set, 0 if the field is null.
CallbackSet == IF countdownTimerEndCallback # NoCallback THEN 1 ELSE 0

(* ------------------------------- claims -------------------------------- *)

\* C1: at most one periodic tick (interval) of the Timer is active at any
\* time, whatever sequence of startCountdown(), reset() and ticks has run,
\* startCountdown() while a countdown is running included.
C1_AtMostOneInterval == Cardinality(intervals) <= 1

\* C2: when reset() returns, no interval started by an earlier
\* startCountdown() is left to fire, remaining time is the initial duration
\* and the display reads "Time: " + initial duration.
C2_ResetCancelsEveryTick ==
  [][ResetCalled =>
       /\ intervals' = {}
       /\ timeRemaining' = initialTime
       /\ Shown("Timer") = TimeText(initialTime)]_vars

\* C3: positive duration N, startCountdown() called once on the fresh Timer
\* and no reset(): the k-th tick (k < N) leaves "Time: " + (N-k) with the
\* one interval still active and nothing cancelled or called back; the N-th
\* tick leaves "Time: 0", has cancelled the interval (one clearInterval by a
\* tick handler in all), has invoked the callback once if one is set, and
\* no tick follows it.
C3_SingleCountdown ==
  [][/\ \A k \in 1..initialTime :
          (TimerCalled /\ hist' = OneCountdown(k)) =>
            /\ timeRemaining' = initialTime - k
            /\ Shown("Timer") = TimeText(initialTime - k)
            /\ k < initialTime =>
                 /\ intervals' = {intervalId'}
                 /\ tickClears' = 0
                 /\ cbCalls' = 0
            /\ k = initialTime =>
                 /\ Shown("Timer") = "Time: 0"
                 /\ intervals' = {}
                 /\ tickClears' = 1
                 /\ cbCalls' = CallbackSet
     /\ (initialTime > 0 /\ hist = OneCountdown(initialTime)) =>
          hist' # Append(hist, "tick")]_vars

C3_Witness ==
  /\ obj["Timer"].state = "ok"
  /\ initialTime = 2
  /\ hist = OneCountdown(2)
  /\ text[obj["Timer"].element] = "Time: 0"
  /\ intervals = {}
  /\ cbCalls = 1

\* C4: after a completed countdown of a Timer with positive duration N,
\* reset() then startCountdown() runs a full countdown again: the start
\* leaves remaining time N and one active interval, the k-th tick leaves
\* N-k, and only the N-th tick reaches 0, cancels the interval and invokes
\* the callback (if set) once more; no tick follows it.
C4_CountdownAfterReset ==
  [][/\ \A k \in 0..initialTime :
          (TimerCalled /\ initialTime > 0
             /\ hist' = SecondCountdown(initialTime, k)) =>
            /\ timeRemaining' = initialTime - k
            /\ 0 < k => Shown("Timer") = TimeText(initialTime - k)
            /\ k < initialTime => intervals' = {intervalId'}
            /\ (0 < k /\ k < initialTime) =>
                 /\ tickClears' = tickClears
                 /\ cbCalls' = cbCalls
            /\ k = initialTime =>
                 /\ intervals' = {}
                 /\ tickClears' = 2
                 /\ cbCalls' = cbCalls + CallbackSet
     /\ (initialTime > 0 /\ hist = SecondCountdown(initialTime, initialTime))
          => hist' # Append(hist, "tick")]_vars

C4_Witness ==
  /\ obj["Timer"].state = "ok"
  /\ initialTime = 2
  /\ hist = SecondCountdown(2, 2)
  /\ timeRemaining = 0
  /\ intervals = {}
  /\ cbCalls = 2

\* C5: after a successful new Timer(id, N) the element reads "Time: N", and
\* after every tick and every reset() it reads "Time: " + remaining time.
C5_TimerDisplay ==
  [][/\ Constructed("Timer") =>
          /\ timeRemaining' = obj'["Timer"].args[2]
          /\ Shown("Timer") = TimeText(obj'["Timer"].args[2])
     /\ TickOrResetCalled => Shown("Timer") = TimeText(timeRemaining')]_vars

C5_Witness ==
  /\ obj["Timer"].state = "ok"
  /\ obj["TextComponent"].element = obj["Timer"].element
  /\ initialTime = 2
  /\ hist = <<"startCountdown", "tick">>
  /\ text[obj["Timer"].element] = "Time: 1"

\* The step is a Scoreboard call that has run to its end.
ScoreCalled == obj["Scoreboard"].state = "ok" /\ sbHist' # sbHist

\* The initial score `new Scoreboard(args)` was given (0 without a second
\* argument).
GivenInitial == DefaultInitialValue(obj'["Scoreboard"].args)

\* The history holds update() calls only.
OnlyUpdates(h) == \A i \in 1..Len(h) : h[i].op = "update"

\* The sum of the deltas of a history of update() calls.
RECURSIVE SumDeltas(_)
SumDeltas(h) == IF h = <<>> THEN 0 ELSE h[1].value + SumDeltas(Tail(h))

\* C6: after a successful new Scoreboard(...), and after every update() and
\* reset(), the element reads "Score: " + score; it reads "Score: 0" after
\* construction without an initial value.
C6_ScoreDisplay ==
  [][/\ (Constructed("Scoreboard") \/ ScoreCalled) =>
          Shown("Scoreboard") = ScoreText(score')
     /\ (Constructed("Scoreboard") /\ Len(obj'["Scoreboard"].args) = 1) =>
          /\ score' = 0
          /\ Shown("Scoreboard") = "Score: 0"]_vars

C6_Witness ==
  /\ obj["Scoreboard"].state = "ok"
  /\ Len(obj["Scoreboard"].args) = 1
  /\ sbHist = <<[op |-> "update", value |-> -1]>>
  /\ text[obj["Scoreboard"].element] = "Score: -1"

\* C7: whatever deltas update() has been called with since construction, in
\* whatever order, the score is the initial score plus their sum, and the
\* display shows that number.
C7_UpdateSums ==
  [][(ScoreCalled /\ OnlyUpdates(sbHist')) =>
       /\ score' = GivenInitial + SumDeltas(sbHist')
       /\ Shown("Scoreboard") = ScoreText(GivenInitial + SumDeltas(sbHist'))]_vars

C7_Witness ==
  /\ obj["Scoreboard"].state = "ok"
  /\ OnlyUpdates(sbHist)
  /\ Len(sbHist) = 3
  /\ \E i, j \in 1..3 : sbHist[i].value < 0 /\ sbHist[j].value > 0
  /\ initialValue = 1
  /\ score = 0
  /\ text[obj["Scoreboard"].element] = "Score: 0"

\* C8: reset() sets the score to the initial score given at construction
\* and the display to "Score: " + that score, after any updates and resets;
\* update() and reset() leave the captured initial value alone.
C8_ResetRestoresInitial ==
  [][ScoreCalled =>
       /\ initialValue' = GivenInitial
       /\ initialValue' = initialValue
       /\ sbHist'[Len(sbHist')].op = "reset" =>
            /\ score' = GivenInitial
            /\ Shown("Scoreboard") = ScoreText(GivenInitial)]_vars

C8_Witness ==
  /\ obj["Scoreboard"].state = "ok"
  /\ Len(obj["Scoreboard"].args) = 2
  /\ obj["Scoreboard"].args[2] = 2
  /\ Len(sbHist) = 3
  /\ sbHist[1].op = "update" /\ sbHist[1].value # 0
  /\ sbHist[2].op = "reset"
  /\ sbHist[3].op = "reset"
  /\ score = 2
  /\ text[obj["Scoreboard"].element] = "Score: 2"

\* C9: `new` of any of the four constructors with an identifier that names
\* no element throws HtmlElementNotFound with the identifier in its message;
\* the object has no own method, no interval is started, and the text of
\* every element and the state of the other objects stay as they were.
C9_MissingElementThrows ==
  [][\A k \in Kinds :
       obj'[k] # obj[k] =>
         /\ obj'[k].args[1] \notin Elements => obj'[k].state = "threw"
         /\ obj'[k].state = "threw" =>
              /\ obj'[k].methods = {}
              /\ obj'[k].element = NullElement
              /\ obj'[k].error.name = "HtmlElementNotFound"
              /\ obj'[k].error.message =
                   "No element exists with id=\"" \o obj'[k].args[1] \o "\"."
              /\ text' = text
              /\ intervals' = intervals
              /\ nextIntervalId' = nextIntervalId
              /\ \A j \in Kinds \ {k} : obj'[j] = obj[j]]_vars

C9_Witness ==
  /\ \A k \in Kinds \ {"Scoreboard"} :
       /\ obj[k].state = "threw"
       /\ obj[k].args[1] = "nope"
       /\ obj[k].methods = {}
  /\ obj["Scoreboard"].state = "ok"
  /\ text = [e \in Elements |-> IF e = "score" THEN "Score: 2" ELSE ""]

\* C10: when the tick that brings remaining time to 0 invokes the callback,
\* and the one active interval before that tick was the one the Timer holds
\* (a countdown started while no tick was active), the callback sees no
\* active interval, remaining time 0 and the display "Time: 0".
C10_CancelBeforeCallback ==
  [][(cbCalls' = cbCalls + 1 /\ intervals = {intervalId}) =>
       /\ cbView'.intervals = {}
       /\ cbView'.timeRemaining = 0
       /\ cbView'.text = "Time: 0"]_vars

C10_Witness ==
  /\ obj["Timer"].state = "ok"
  /\ initialTime = 2
  /\ hist = OneCountdown(2)
  /\ cbCalls = 1
  /\ cbView = [intervals |-> {}, text |-> "Time: 0", timeRemaining |-> 0]

\* The step begins with a tick of the Timer.
TickCalled ==
  /\ obj["Timer"].state = "ok"
  /\ Len(hist') > Len(hist)
  /\ hist'[Len(hist) + 1] = "tick"

\* The step begins with the tick whose decrement makes remaining time 0.
CompletingTick == TickCalled /\ timeRemaining = 1

\* n calls of reset() in a row.
Resets(n) == [i \in 1..n |-> "reset"]

\* C11: reset() on a Timer with no active tick (never started, already
\* reset, or completed) makes no clearInterval call for an interval that is
\* not active; it restores remaining time and renders it.
C11_IdleResetCancelsNothing ==
  [][(ResetCalled /\ intervals = {}) =>
       /\ staleClears' = staleClears
       /\ intervals' = {}
       /\ timeRemaining' = initialTime
       /\ Shown("Timer") = TimeText(initialTime)]_vars

\* C12: a Timer of duration 0: the first tick after startCountdown() leaves
\* -1 and "Time: -1"; every tick leaves a negative remaining time, so no
\* tick runs the completion branch: the callback is never invoked, no tick
\* handler calls clearInterval, and an active interval stops being active
\* only in a reset().
C12_ZeroDurationNeverCompletes ==
  [][(obj["Timer"].state = "ok" /\ initialTime = 0) =>
       /\ cbCalls' = 0
       /\ tickClears' = 0
       /\ TickCalled =>
            /\ timeRemaining' < 0
            /\ Shown("Timer") = TimeText(timeRemaining')
            /\ intervals' = intervals
       /\ (TickCalled /\ hist' = OneCountdown(1)) =>
            /\ timeRemaining' = -1
            /\ Shown("Timer") = "Time: -1"
       /\ ~(intervals \subseteq intervals') => ResetCalled]_vars

C12_Witness ==
  /\ obj["Timer"].state = "ok"
  /\ initialTime = 0
  /\ countdownTimerEndCallback = "observe"
  /\ hist = OneCountdown(2)
  /\ timeRemaining = -2
  /\ text[obj["Timer"].element] = "Time: -2"
  /\ intervals = {intervalId}
  /\ cbCalls = 0

\* C13: assigning the callback field changes nothing else of the Timer,
\* running or not; the tick that brings remaining time to 0 invokes the
\* function the field holds at that moment, once, and with the field null
\* it invokes nothing and still cancels the held interval.
C13_CallbackReadAtCompletion ==
  [][/\ countdownTimerEndCallback' # countdownTimerEndCallback =>
          UNCHANGED <<text, timeRemaining, intervalId, intervals, hist,
                      cbCalls, cbCallee, tickClears>>
     /\ CompletingTick =>
          /\ tickClears' = tickClears + 1
          /\ IF countdownTimerEndCallback = NoCallback
             THEN /\ cbCalls' = cbCalls
                  /\ cbCallee' = cbCallee
                  /\ intervals' = intervals \ {intervalId}
             ELSE /\ cbCalls' = cbCalls + 1
                  /\ cbCallee' = countdownTimerEndCallback]_vars

C13_Witness ==
  /\ obj["Timer"].state = "ok"
  /\ initialTime = 2
  /\ hist = SecondCountdown(2, 2)
  /\ cbCalls = 1
  /\ cbCallee = "observe"
  /\ countdownTimerEndCallback = NoCallback
  /\ intervals = {}

\* C14: reset(), startCountdown() and ticks leave the callback field as it
\* is, also the tick that completes a countdown.
C14_CallsKeepCallback ==
  [][TimerCalled =>
       countdownTimerEndCallback' = countdownTimerEndCallback]_vars

C14_Witness ==
  /\ obj["Timer"].state = "ok"
  /\ initialTime = 1
  /\ hist = OneCountdown(1) \o <<"reset">>
  /\ cbCalls = 1
  /\ countdownTimerEndCallback = "observe"

\* C15: a callback that calls reset() then startCountdown() inside the
\* completing tick, with the held interval the only active one: when the
\* tick ends, the new interval is the only active one, and remaining time
\* and display are back at the initial duration N.  The countdown so
\* started leaves N-k after its k-th tick and completes at the N-th, which
\* invokes the callback again.
C15_RestartFromCallback ==
  [][/\ (CompletingTick /\ countdownTimerEndCallback = "restart"
           /\ intervals = {intervalId}) =>
          /\ hist' = hist \o <<"tick", "reset", "startCountdown">>
          /\ cbCalls' = cbCalls + 1
          /\ intervalId' \notin intervals
          /\ intervals' = {intervalId'}
          /\ timeRemaining' = initialTime
          /\ Shown("Timer") = TimeText(initialTime)
     /\ \A k \in 1..initialTime :
          (TickCalled /\ hist = SecondCountdown(initialTime, k - 1)
             /\ cbCalls = 1 /\ cbCallee = "restart") =>
            /\ k < initialTime =>
                 /\ hist' = SecondCountdown(initialTime, k)
                 /\ timeRemaining' = initialTime - k
                 /\ intervals' = {intervalId'}
                 /\ cbCalls' = 1
            /\ k = initialTime =>
                 /\ tickClears' = 2
                 /\ cbCalls' = 1 + CallbackSet
                 /\ IF countdownTimerEndCallback = "restart"
                    THEN intervals' = {intervalId'}
                           /\ timeRemaining' = initialTime
                    ELSE intervals' = {} /\ timeRemaining' = 0]_vars

C15_Witness ==
  /\ obj["Timer"].state = "ok"
  /\ initialTime = 1
  /\ hist = SecondCountdown(1, 1) \o <<"reset", "startCountdown">>
  /\ cbCalls = 2
  /\ cbCallee = "restart"
  /\ intervals = {intervalId}
  /\ timeRemaining = 1

\* C16: the callback is invoked only in a step that begins with a tick
\* whose decrement makes remaining time 0, at most once per step; and after
\* startCountdown() called once, fewer ticks than the positive duration and
\* then reset(), no interval is active and the callback has never run.
C16_CallbackOnlyAtZero ==
  /\ [][cbCalls' # cbCalls =>
          /\ CompletingTick
          /\ cbCalls' = cbCalls + 1
          /\ cbView'.timeRemaining = 0]_vars
  /\ [](\A k \in 0..(initialTime - 1), r \in 1..Len(hist) :
          (obj["Timer"].state = "ok" /\ hist = OneCountdown(k) \o Resets(r))
            => (cbCalls = 0 /\ intervals = {}))

C16_Witness ==
  /\ obj["Timer"].state = "ok"
  /\ initialTime = 2
  /\ countdownTimerEndCallback = "observe"
  /\ hist = OneCountdown(1) \o Resets(1)
  /\ cbCalls = 0
  /\ intervals = {}

\* C17 as claimed: with a positive initial duration and startCountdown()
\* never called while an interval was active, remaining time is within
\* 0..initial duration, also when startCountdown() is called again after a
\* completed countdown without a reset().
C17_TimeInRange ==
  (obj["Timer"].state = "ok" /\ initialTime > 0 /\ ~overlapped) =>
    timeRemaining \in 0..initialTime

\* C17 as amended: with a positive initial duration and startCountdown()
\* never called while an interval was active nor while remaining time was
\* 0 (after a completed countdown: only after a reset()), remaining time is
\* within 0..initial duration.
C17_TimeInRangeStartedWithTime ==
  (obj["Timer"].state = "ok" /\ initialTime > 0 /\ ~overlapped
     /\ ~startedSpent) =>
    timeRemaining \in 0..initialTime

C17_Witness ==
  /\ obj["Timer"].state = "ok"
  /\ initialTime = 2
  /\ ~overlapped
  /\ ~startedSpent
  /\ hist = SecondCountdown(2, 2)
  /\ timeRemaining = 0
  /\ intervals = {}

====
